---------------------------- MODULE Spec2Model ----------------------------
(***************************************************************************)
(* A model of matrix-blog-migrate (src/main.rs): one invocation of the    *)
(* program converts one markdown file with a YAML header into a file with *)
(* a TOML header.  The run is a straight line of steps; `pc` is the       *)
(* position of main, and a failed step (an Err returned by `?`, a bail!,  *)
(* a panic of expect/assert!, process::exit) ends the run in pc="failed". *)
(*                                                                         *)
(* Strings whose characters the program looks at (dates, titles, slugs,   *)
(* timestamps, paths) are sequences of one-character strings.             *)
(***************************************************************************)
EXTENDS Integers, Sequences, FiniteSets, TLC

(***************************************************************************)
(* Bounds of the model.                                                    *)
(***************************************************************************)
MaxHistory == 2      \* longest `git log` output drawn, in lines
MaxLines == 4        \* longest input file drawn for the header splitter

(***************************************************************************)
(* Characters and strings.                                                 *)
(***************************************************************************)
Upper == <<"A","B","C","D","E","F","G","H","I","J","K","L","M",
           "N","O","P","Q","R","S","T","U","V","W","X","Y","Z">>
Lower == <<"a","b","c","d","e","f","g","h","i","j","k","l","m",
           "n","o","p","q","r","s","t","u","v","w","x","y","z">>
Digits == <<"0","1","2","3","4","5","6","7","8","9">>

Range(f) == { f[i] : i \in DOMAIN f }

\* char::is_uppercase, char::is_lowercase, char::is_alphanumeric ("é" stands
\* for the non-ASCII letters)
IsUpper(c) == c \in Range(Upper)
IsLower(c) == c \in Range(Lower) \cup {"é"}
IsAlphanumeric(c) == IsUpper(c) \/ IsLower(c) \/ c \in Range(Digits)

\* char::to_lowercase
ToLowerChar(c) ==
    IF IsUpper(c) THEN Lower[CHOOSE i \in DOMAIN Upper : Upper[i] = c] ELSE c

\* str::to_lowercase
ToLowercase(s) == [i \in DOMAIN s |-> ToLowerChar(s[i])]

\* the bytes one character takes in UTF-8: str::len counts bytes
ByteLen(c) == IF c = "é" THEN 2 ELSE 1

RECURSIVE StrLen(_)
\* str::len
StrLen(s) == IF s = <<>> THEN 0 ELSE ByteLen(Head(s)) + StrLen(Tail(s))

\* str::is_ascii
IsAscii(s) == \A i \in DOMAIN s : s[i] # "é"

\* str::starts_with
StartsWith(s, prefix) ==
    /\ Len(prefix) <= Len(s)
    /\ SubSeq(s, 1, Len(prefix)) = prefix

RECURSIVE Concat(_)
\* the concatenation of a sequence of strings: what format! builds
Concat(parts) == IF parts = <<>> THEN <<>> ELSE Head(parts) \o Concat(Tail(parts))

\* two decimal digits of a number below 100 (%d, %H of date(1))
TwoDigits(n) == <<Digits[(n \div 10) + 1], Digits[(n % 10) + 1]>>

(***************************************************************************)
(* heck::ToKebabCase, as the crate computes it: the string is cut at every *)
(* character that is not alphanumeric, each piece is cut again where a     *)
(* lowercase letter is followed by an uppercase one and before the last    *)
(* capital of a run of capitals that a lowercase letter follows, the words *)
(* are lowercased and joined with single hyphens.                          *)
(***************************************************************************)
RECURSIVE SplitAlnum(_, _, _)
\* s.split(|c| !c.is_alphanumeric()): the pieces between separators
SplitAlnum(s, cur, acc) ==
    IF s = <<>> THEN Append(acc, cur)
    ELSE IF IsAlphanumeric(Head(s))
         THEN SplitAlnum(Tail(s), Append(cur, Head(s)), acc)
         ELSE SplitAlnum(Tail(s), <<>>, Append(acc, cur))

RECURSIVE WordsOf(_, _, _, _, _)
\* the loop of heck's transform over one piece w: i is the character looked
\* at, init the start of the current word, mode the case of the previous
\* cased character of the current word
WordsOf(w, i, init, mode, acc) ==
    IF i > Len(w) THEN acc
    ELSE IF i = Len(w) THEN Append(acc, SubSeq(w, init, Len(w)))
    ELSE LET c == w[i]
             next == w[i + 1]
             next_mode == IF IsLower(c) THEN "Lowercase"
                          ELSE IF IsUpper(c) THEN "Uppercase" ELSE mode
         IN  IF next_mode = "Lowercase" /\ IsUpper(next)
             THEN WordsOf(w, i + 1, i + 1, "Boundary",
                          Append(acc, SubSeq(w, init, i)))
             ELSE IF mode = "Uppercase" /\ IsUpper(c) /\ IsLower(next)
             THEN WordsOf(w, i + 1, i, "Boundary",
                          Append(acc, SubSeq(w, init, i - 1)))
             ELSE WordsOf(w, i + 1, init, next_mode, acc)

RECURSIVE AllWords(_)
\* the words of every piece, in order
AllWords(pieces) ==
    IF pieces = <<>> THEN <<>>
    ELSE WordsOf(Head(pieces), 1, 1, "Boundary", <<>>) \o AllWords(Tail(pieces))

RECURSIVE JoinWith(_, _)
\* the strings joined with sep between them (Itertools::join, heck's boundary)
JoinWith(strs, sep) ==
    IF strs = <<>> THEN <<>>
    ELSE IF Len(strs) = 1 THEN Head(strs)
    ELSE Head(strs) \o sep \o JoinWith(Tail(strs), sep)

\* mutant of ToKebabCase: the title is only lowercased
ToKebabCase_Lowercased(s) == ToLowercase(s)

\* str::to_kebab_case
ToKebabCase(s) ==
    LET words == AllWords(SplitAlnum(s, <<>>, <<>>))
    IN  JoinWith([i \in DOMAIN words |-> ToLowercase(words[i])], <<"-">>)

(***************************************************************************)
(* toml::Value: the header's values after decoding.  One record shape for  *)
(* every variant: s is the text of a String, a the elements of an Array,   *)
(* tab the entries of a Table; Integer stands for every other scalar.      *)
(***************************************************************************)
String(s) == [t |-> "String", s |-> s, a |-> <<>>, tab |-> <<>>]
Array(a) == [t |-> "Array", s |-> <<>>, a |-> a, tab |-> <<>>]
Table(tab) == [t |-> "Table", s |-> <<>>, a |-> <<>>, tab |-> tab]
Integer == [t |-> "Integer", s |-> <<>>, a |-> <<>>, tab |-> <<>>]

(***************************************************************************)
(* indexmap::IndexMap<String, toml::Value>: a sequence of entries [k, v]   *)
(* with distinct keys, in insertion order.                                 *)
(***************************************************************************)
keys(m) == [i \in DOMAIN m |-> m[i].k]
contains_key(m, key) == \E i \in DOMAIN m : m[i].k = key
get_index_of(m, key) == CHOOSE i \in DOMAIN m : m[i].k = key
get(m, key) == m[get_index_of(m, key)].v

\* IndexMap::shift_remove: the entries after the removed one move up
shift_remove(m, key) ==
    IF ~contains_key(m, key) THEN m
    ELSE LET i == get_index_of(m, key)
         IN  SubSeq(m, 1, i - 1) \o SubSeq(m, i + 1, Len(m))

\* IndexMap::swap_remove: the last entry takes the place of the removed one
swap_remove(m, key) ==
    IF ~contains_key(m, key) THEN m
    ELSE LET i == get_index_of(m, key)
             n == Len(m)
         IN  IF i = n THEN SubSeq(m, 1, n - 1)
             ELSE [j \in 1..(n - 1) |-> IF j = i THEN m[n] ELSE m[j]]

\* IndexMap::remove is swap_remove (indexmap's documentation of remove)
remove(m, key) == swap_remove(m, key)

\* IndexMap::insert: a new key goes last, a present key keeps its place
insert(m, key, value) ==
    IF contains_key(m, key)
    THEN [j \in DOMAIN m |-> IF m[j].k = key THEN [k |-> key, v |-> value] ELSE m[j]]
    ELSE Append(m, [k |-> key, v |-> value])

\* IndexMap::entry(key).or_insert_with(default)
entry_or_insert(m, key, default) ==
    IF contains_key(m, key) THEN m ELSE Append(m, [k |-> key, v |-> default])

(***************************************************************************)
(* toml::value::Table is a BTreeMap: its entries are kept sorted by key.   *)
(* The program only ever inserts the keys "author" and "category".         *)
(***************************************************************************)
TableKeyRank(key) == IF key = "author" THEN 1 ELSE 2

\* Table::insert
table_insert(tab, key, value) ==
    LET others == SelectSeq(tab, LAMBDA e : e.k # key)
        before == SelectSeq(others, LAMBDA e : TableKeyRank(e.k) < TableKeyRank(key))
        after == SelectSeq(others, LAMBDA e : TableKeyRank(e.k) > TableKeyRank(key))
    IN  before \o <<[k |-> key, v |-> value]>> \o after

(***************************************************************************)
(* Timestamps.  `git log --date=iso-strict` prints one line per commit,    *)
(* "YYYY-MM-DDTHH:MM:SS+hh:mm".  The model draws days of March 2024,      *)
(* whole-hour zone offsets, and 30 minutes 0 seconds past the hour; day d  *)
(* stands for 2024-03-(05+d).                                              *)
(***************************************************************************)
DayStr(d) == <<"2","0","2","4","-","0","3","-","0", Digits[d + 6]>>

OffsetStr(off) ==
    (IF off < 0 THEN <<"-">> ELSE <<"+">>)
        \o TwoDigits(IF off < 0 THEN -off ELSE off) \o <<":","0","0">>

\* the line git prints for a commit made on day d at hour h in zone off
IsoStrict(d, h, off) ==
    Concat(<<DayStr(d), <<"T">>, TwoDigits(h), <<":","3","0",":","0","0">>, OffsetStr(off)>>)

DigitValue(c) == (CHOOSE i \in DOMAIN Digits : Digits[i] = c) - 1

\* what date(1) reads out of an iso-strict line: day, hour, zone offset
ParseIso(line) ==
    [d |-> DigitValue(line[10]) - 5,
     h |-> 10 * DigitValue(line[12]) + DigitValue(line[13]),
     off |-> (IF line[20] = "-" THEN -1 ELSE 1)
               * (10 * DigitValue(line[21]) + DigitValue(line[22]))]

\* `date --date=<line> +%Y-%m-%dT%H:%M:%SZ` run in a zone `zone` hours east
\* of UTC: without -u, date prints the instant in the local zone, and the
\* format's Z is a literal letter
DateCommand(line, zone) ==
    LET p == ParseIso(line)
        hours == 24 * p.d + p.h - p.off + zone
    IN  Concat(<<DayStr(hours \div 24), <<"T">>, TwoDigits(hours % 24),
                 <<":","3","0",":","0","0","Z">>>>)

(***************************************************************************)
(* The input file is a sequence of lines (BufRead::lines).  A line is      *)
(* either plain text, compared as a whole (the delimiter is the text       *)
(* "---"), or one entry `key: value` of a YAML mapping.  Texts built from  *)
(* lines are sequences of lines and newline marks.                         *)
(***************************************************************************)
TextLine(s) == [kind |-> "text", text |-> s, k |-> "", v |-> Integer]
EntryLine(key, value) == [kind |-> "entry", text |-> "", k |-> key, v |-> value]
Newline == [kind |-> "newline", text |-> "\n", k |-> "", v |-> Integer]
Delimiter == TextLine("---")

(***************************************************************************)
(* The inputs drawn.                                                       *)
(***************************************************************************)
Hello == <<"H","e","l","l","o",","," ","W","o","r","l","d","!">>
MySlug == <<"M","y","_","S","l","u","g">>
Foo == <<"f","o","o">>
Bar == <<"b","a","r">>

\* commits: 2024-03-07T10:30:00+00:00, 2024-03-07T00:30:00+01:00 (the 6th in
\* UTC) and 2024-03-08T23:30:00-01:00 (the 9th in UTC)
CommitA == IsoStrict(2, 10, 0)
CommitB == IsoStrict(2, 0, 1)
CommitC == IsoStrict(3, 23, -1)
Commits == {CommitA, CommitB, CommitC}
Zones == {-1, 0, 1}

March7 == DayStr(2)
March8 == DayStr(3)

\* every sequence over S of length at most n
SeqsUpTo(S, n) == UNION { [1..m -> S] : m \in 0..n }

RecognizedInput == {"date", "title", "author", "categories", "slug"}
OutputOnly == {"updated", "taxonomies", "path"}

TaxonomyValues ==
    {String(Foo), Array(<<String(Foo), String(Bar)>>), Array(<<>>), Integer,
     Table(<<[k |-> "name", v |-> String(Foo)]>>)}

\* the values drawn for a key of the header
ValuesFor(key) ==
    CASE key = "date" -> {String(March7), String(March8), Integer}
      [] key = "title" -> {String(Hello), Integer}
      [] key = "slug" -> {String(MySlug), Integer}
      [] key \in {"author", "categories"} -> TaxonomyValues
      [] OTHER -> {String(Foo)}

\* the key orders drawn: headers are sub-sequences of these
Templates ==
    UNION { { <<"date", "title", "image", "categories", "author", x, "slug">>,
              <<"slug", x, "author", "categories", "image", "title", "date">> }
            : x \in OutputOnly }

RECURSIVE Keep(_, _, _)
\* the sub-sequence of T at the positions in S
Keep(T, i, S) ==
    IF i > Len(T) THEN <<>>
    ELSE (IF i \in S THEN <<T[i]>> ELSE <<>>) \o Keep(T, i + 1, S)

RECURSIVE HeadersOver(_)
\* the headers over the key sequence ks: every choice of values
HeadersOver(ks) ==
    IF ks = <<>> THEN {<<>>}
    ELSE { <<EntryLine(Head(ks), v)>> \o rest :
             v \in ValuesFor(Head(ks)), rest \in HeadersOver(Tail(ks)) }

Headers ==
    UNION { UNION { HeadersOver(Keep(T, 1, S)) : S \in SUBSET DOMAIN T } : T \in Templates }

Body == <<TextLine("text"), Delimiter, TextLine(""), TextLine(" text ")>>

FileOf(header) == <<Delimiter>> \o header \o <<Delimiter>> \o Body

GoodPath == <<"content", ".mdx">>

\* the dates drawn for the date check: 2024-03-07 with one character
\* replaced, cut short, or extended
DateShapes ==
    { [March7 EXCEPT ![i] = c] : i \in 1..10, c \in {"x", "-", "/", "7", "é"} }
    \cup { SubSeq(March7, 1, n) : n \in 0..10 }
    \cup { March7 \o <<c>> : c \in {"1", "T"} }
    \cup { SubSeq([March7 EXCEPT ![i] = "é"], 1, 9) : i \in 1..9 }

LineAlphabet ==
    {Delimiter, TextLine(" ---"), TextLine("a---b"),
     EntryLine("date", String(March7)), EntryLine("title", String(Hello))}

Input(a, h, z, l) == [args |-> a, history |-> h, zone |-> z, lines |-> l]

\* every header with one history and zone
HeaderInputs ==
    { Input(<<GoodPath>>, <<CommitA, CommitC>>, 0, FileOf(h)) : h \in Headers }

\* every history and zone with a matching and a mismatching header
HistoryInputs ==
    { Input(<<GoodPath>>, h, z,
            FileOf(<<EntryLine("date", String(d)), EntryLine("title", String(Hello)),
                     EntryLine("author", String(Foo))>>)) :
        h \in SeqsUpTo(Commits, MaxHistory), z \in Zones, d \in {March7, March8} }

\* every date shape
DateInputs ==
    { Input(<<GoodPath>>, <<CommitA>>, 0,
            FileOf(<<EntryLine("title", String(Hello)), EntryLine("date", String(d))>>)) :
        d \in DateShapes }

\* every file of at most MaxLines lines
LineInputs ==
    { Input(<<GoodPath>>, <<CommitA>>, 0, l) : l \in SeqsUpTo(LineAlphabet, MaxLines) }

\* every argument list
ArgInputs ==
    { Input(a, <<CommitA>>, 0,
            FileOf(<<EntryLine("date", String(March7)), EntryLine("title", String(Hello))>>)) :
        a \in SeqsUpTo({GoodPath, <<"content", "post.mdx">>}, 2) }

Inputs == HeaderInputs \cup HistoryInputs \cup DateInputs \cup LineInputs \cup ArgInputs

(***************************************************************************)
(* The state.                                                              *)
(***************************************************************************)
VARIABLES
    args,               \* env::args().skip(1): the paths given, each a sequence of components
    history,            \* what `git log` prints for the input file, newest commit first
    zone,               \* the zone date(1) runs in, hours east of UTC
    lines,              \* the lines of the input file
    pc,                 \* the position of main
    failure,            \* why the run failed, "none" while it has not
    unexpected_key,     \* the key named by the unexpected-field error
    warned,             \* whether the date mismatch warning was printed
    date,               \* Option<String>: <<>> is None, <<s>> is Some(s)
    updated,            \* Option<String>
    yaml_frontmatter,   \* the header text
    markdown,           \* the body text
    frontmatter_value,  \* the IndexMap
    frontmatter_date,   \* the declared date
    title,
    slug,
    year,
    month,
    day,
    toml_frontmatter,   \* the serialized header
    output_path,        \* the output file's path, <<>> while not computed
    created_dirs,       \* the directories create_dir_all made
    output              \* the output file: <<>> while it does not exist, else <<content>>

vars == <<args, history, zone, lines, pc, failure, unexpected_key, warned, date,
          updated, yaml_frontmatter, markdown, frontmatter_value, frontmatter_date,
          title, slug, year, month, day, toml_frontmatter, output_path,
          created_dirs, output>>

env == <<args, history, zone, lines>>

None == <<>>
Some(x) == <<x>>

Init ==
    /\ \E inp \in Inputs :
          /\ args = inp.args
          /\ history = inp.history
          /\ zone = inp.zone
          /\ lines = inp.lines
    /\ pc = "start"
    /\ failure = "none"
    /\ unexpected_key = ""
    /\ warned = FALSE
    /\ date = None
    /\ updated = None
    /\ yaml_frontmatter = <<>>
    /\ markdown = <<>>
    /\ frontmatter_value = <<>>
    /\ frontmatter_date = <<>>
    /\ title = <<>>
    /\ slug = <<>>
    /\ year = <<>>
    /\ month = <<>>
    /\ day = <<>>
    /\ toml_frontmatter = <<>>
    /\ output_path = <<>>
    /\ created_dirs = {}
    /\ output = <<>>

\* the run ends with an error: an Err out of main, a panic, or process::exit(1)
Fail(kind) ==
    /\ pc' = "failed"
    /\ failure' = kind

\* the run goes on to step `next`
Goto(next) ==
    /\ pc' = next
    /\ failure' = failure

\* Path::ends_with: whole components are compared, not characters
PathEndsWith(path, child) ==
    /\ Len(child) <= Len(path)
    /\ SubSeq(path, Len(path) - Len(child) + 1, Len(path)) = child

\* main, the argument check and the assertion on the path
CheckArgs ==
    /\ pc = "start"
    /\ IF Len(args) # 1 THEN Fail("usage")
       ELSE IF ~PathEndsWith(args[1], <<".mdx">>) THEN Fail("assert_mdx")
       ELSE Goto("git_timestamps")
    /\ UNCHANGED <<env, unexpected_key, warned, date, updated, yaml_frontmatter,
                   markdown, frontmatter_value, frontmatter_date, title, slug, year,
                   month, day, toml_frontmatter, output_path, created_dirs, output>>

\* git_timestamps: the first line is `date`, the last of the others `updated`
git_timestamps ==
    /\ pc = "git_timestamps"
    /\ IF history = <<>>
       THEN /\ Fail("git_no_history")
            /\ UNCHANGED <<date, updated>>
       ELSE /\ Goto("read_file_contents")
            /\ date' = Some(Head(history))
            /\ updated' = IF Tail(history) = <<>> THEN None
                          ELSE Some(history[Len(history)])
    /\ UNCHANGED <<env, unexpected_key, warned, yaml_frontmatter,
                   markdown, frontmatter_value, frontmatter_date, title, slug, year,
                   month, day, toml_frontmatter, output_path, created_dirs, output>>

RECURSIVE ScanFrontmatter_Trimmed(_, _)
\* mutant of ScanFrontmatter: the line is trimmed before it is compared
ScanFrontmatter_Trimmed(rest, frontmatter) ==
    IF rest = <<>> THEN [found |-> FALSE, frontmatter |-> frontmatter, rest |-> <<>>]
    ELSE IF Head(rest) \in {Delimiter, TextLine(" ---")}
         THEN [found |-> TRUE, frontmatter |-> frontmatter, rest |-> Tail(rest)]
         ELSE ScanFrontmatter_Trimmed(Tail(rest), frontmatter \o <<Head(rest), Newline>>)

RECURSIVE ScanFrontmatter(_, _)
\* the loop of read_file_contents over the lines after the first: the lines
\* before the first "---" each followed by a newline, and the lines left
ScanFrontmatter(rest, frontmatter) ==
    IF rest = <<>> THEN [found |-> FALSE, frontmatter |-> frontmatter, rest |-> <<>>]
    ELSE IF Head(rest) = Delimiter
         THEN [found |-> TRUE, frontmatter |-> frontmatter, rest |-> Tail(rest)]
         ELSE ScanFrontmatter(Tail(rest), frontmatter \o <<Head(rest), Newline>>)

\* read_file_contents
read_file_contents ==
    /\ pc = "read_file_contents"
    /\ IF lines = <<>>
       THEN /\ Fail("input_empty")
            /\ UNCHANGED <<yaml_frontmatter, markdown>>
       ELSE IF Head(lines) # Delimiter
       THEN /\ Fail("no_frontmatter")
            /\ UNCHANGED <<yaml_frontmatter, markdown>>
       ELSE LET scan == ScanFrontmatter(Tail(lines), <<>>)
            IN  IF ~scan.found
                THEN /\ Fail("unterminated")
                     /\ UNCHANGED <<yaml_frontmatter, markdown>>
                ELSE /\ Goto("from_str")
                     /\ yaml_frontmatter' = scan.frontmatter
                     /\ markdown' = JoinWith([i \in DOMAIN scan.rest |-> <<scan.rest[i]>>],
                                             <<Newline>>)
    /\ UNCHANGED <<env, unexpected_key, warned, date, updated,
                   frontmatter_value, frontmatter_date, title, slug, year,
                   month, day, toml_frontmatter, output_path, created_dirs, output>>

RECURSIVE CollectEntries(_, _)
\* IndexMap's Deserialize: the entries are inserted one after the other
CollectEntries(entries, m) ==
    IF entries = <<>> THEN m
    ELSE CollectEntries(Tail(entries), insert(m, Head(entries).k, Head(entries).v))

\* serde_yaml::from_str into the IndexMap: every line of the header has to be
\* an entry of the top-level mapping.  An empty header is an error to one
\* version of the decoder and an empty mapping to another.
from_str ==
    /\ pc = "from_str"
    /\ LET header == SelectSeq(yaml_frontmatter, LAMBDA l : l.kind # "newline")
       IN  IF \E i \in DOMAIN header : header[i].kind # "entry"
           THEN /\ Fail("yaml")
                /\ UNCHANGED frontmatter_value
           ELSE IF header = <<>>
           THEN \/ /\ Fail("yaml")
                   /\ UNCHANGED frontmatter_value
                \/ /\ Goto("date")
                   /\ frontmatter_value' = <<>>
           ELSE /\ Goto("date")
                /\ frontmatter_value' = CollectEntries(header, <<>>)
    /\ UNCHANGED <<env, unexpected_key, warned, date, updated, yaml_frontmatter,
                   markdown, frontmatter_date, title, slug, year,
                   month, day, toml_frontmatter, output_path, created_dirs, output>>

\* main: the declared date is taken out of the map and has to be a string
TakeDate ==
    /\ pc = "date"
    /\ IF ~contains_key(frontmatter_value, "date")
       THEN /\ Fail("no_date")
            /\ UNCHANGED <<frontmatter_value, frontmatter_date>>
       ELSE /\ frontmatter_value' = shift_remove(frontmatter_value, "date")
            /\ IF get(frontmatter_value, "date").t = "String"
               THEN /\ Goto("mismatch")
                    /\ frontmatter_date' = get(frontmatter_value, "date").s
               ELSE /\ Fail("date_not_string")
                    /\ UNCHANGED frontmatter_date
    /\ UNCHANGED <<env, unexpected_key, warned, date, updated, yaml_frontmatter,
                   markdown, title, slug, year,
                   month, day, toml_frontmatter, output_path, created_dirs, output>>

\* whether the git date and the declared date disagree
Mismatch == ~StartsWith(Head(date), frontmatter_date)

\* mutant of CheckMismatch: on a mismatch only `date` is forgotten
CheckMismatch_KeepsUpdated ==
    /\ pc = "mismatch"
    /\ Goto("title")
    /\ IF Mismatch
       THEN /\ warned' = TRUE
            /\ date' = None
            /\ UNCHANGED updated
       ELSE UNCHANGED <<warned, date, updated>>
    /\ UNCHANGED <<env, unexpected_key, yaml_frontmatter,
                   markdown, frontmatter_value, frontmatter_date, title, slug, year,
                   month, day, toml_frontmatter, output_path, created_dirs, output>>

\* main: on a mismatch, warn and forget both git timestamps
CheckMismatch ==
    /\ pc = "mismatch"
    /\ Goto("title")
    /\ IF Mismatch
       THEN /\ warned' = TRUE
            /\ date' = None
            /\ updated' = None
       ELSE UNCHANGED <<warned, date, updated>>
    /\ UNCHANGED <<env, unexpected_key, yaml_frontmatter,
                   markdown, frontmatter_value, frontmatter_date, title, slug, year,
                   month, day, toml_frontmatter, output_path, created_dirs, output>>

\* main: frontmatter_value["title"].as_str().expect(..): indexing panics on a
\* missing key, expect on a value that is no string
TakeTitle ==
    /\ pc = "title"
    /\ IF ~contains_key(frontmatter_value, "title")
       THEN /\ Fail("no_title")
            /\ UNCHANGED title
       ELSE IF get(frontmatter_value, "title").t # "String"
       THEN /\ Fail("title_not_string")
            /\ UNCHANGED title
       ELSE /\ Goto("slug")
            /\ title' = get(frontmatter_value, "title").s
    /\ UNCHANGED <<env, unexpected_key, warned, date, updated, yaml_frontmatter,
                   markdown, frontmatter_value, frontmatter_date, slug, year,
                   month, day, toml_frontmatter, output_path, created_dirs, output>>

\* mutant of TakeSlug: the slug is read with get, and stays in the map
TakeSlug_NotRemoved ==
    /\ pc = "slug"
    /\ UNCHANGED frontmatter_value
    /\ IF ~contains_key(frontmatter_value, "slug")
       THEN /\ Goto("fields")
            /\ slug' = ToKebabCase(title)
       ELSE IF get(frontmatter_value, "slug").t = "String"
       THEN /\ Goto("fields")
            /\ slug' = get(frontmatter_value, "slug").s
       ELSE /\ Fail("slug_not_string")
            /\ UNCHANGED slug
    /\ UNCHANGED <<env, unexpected_key, warned, date, updated, yaml_frontmatter,
                   markdown, frontmatter_date, title, year,
                   month, day, toml_frontmatter, output_path, created_dirs, output>>

\* main: the slug is the `slug` field, or the kebab-cased title
TakeSlug ==
    /\ pc = "slug"
    /\ frontmatter_value' = shift_remove(frontmatter_value, "slug")
    /\ IF ~contains_key(frontmatter_value, "slug")
       THEN /\ Goto("fields")
            /\ slug' = ToKebabCase(title)
       ELSE IF get(frontmatter_value, "slug").t = "String"
       THEN /\ Goto("fields")
            /\ slug' = get(frontmatter_value, "slug").s
       ELSE /\ Fail("slug_not_string")
            /\ UNCHANGED slug
    /\ UNCHANGED <<env, unexpected_key, warned, date, updated, yaml_frontmatter,
                   markdown, frontmatter_date, title, year,
                   month, day, toml_frontmatter, output_path, created_dirs, output>>

\* mutant of Expected: the loop also lets `image` pass
Expected_WithImage == {"categories", "author", "title", "image"}

\* the keys the loop over the remaining fields lets pass
Expected == {"categories", "author", "title"}

\* main: the first remaining key that is not expected ends the run
CheckFields ==
    /\ pc = "fields"
    /\ LET unexpected == SelectSeq(keys(frontmatter_value), LAMBDA k : k \notin Expected)
       IN  IF unexpected # <<>>
           THEN /\ Fail("unexpected_field")
                /\ unexpected_key' = Head(unexpected)
           ELSE /\ Goto("date_shape")
                /\ UNCHANGED unexpected_key
    /\ UNCHANGED <<env, warned, date, updated, yaml_frontmatter,
                   markdown, frontmatter_value, frontmatter_date, title, slug, year,
                   month, day, toml_frontmatter, output_path, created_dirs, output>>

\* the four assertions on the declared date (byte indexes 4 and 7 are the
\* fifth and eighth characters of an ASCII string)
DateAssertions(d) ==
    /\ IsAscii(d)
    /\ StrLen(d) = 10
    /\ d[5] = "-"
    /\ d[8] = "-"

\* main: the assertions, then year, month and day are cut out of the date
CutDate ==
    /\ pc = "date_shape"
    /\ IF DateAssertions(frontmatter_date)
       THEN /\ Goto("insert_date")
            /\ year' = SubSeq(frontmatter_date, 1, 4)
            /\ month' = SubSeq(frontmatter_date, 6, 7)
            /\ day' = SubSeq(frontmatter_date, 9, 10)
       ELSE /\ Fail("date_shape")
            /\ UNCHANGED <<year, month, day>>
    /\ UNCHANGED <<env, unexpected_key, warned, date, updated, yaml_frontmatter,
                   markdown, frontmatter_value, frontmatter_date, title, slug,
                   toml_frontmatter, output_path, created_dirs, output>>

\* utc_iso_date: the output of the date command, in the zone of the run
utc_iso_date(iso_date) == DateCommand(iso_date, zone)

\* main: `date` is set from the git date, unless a mismatch dropped it
InsertDate ==
    /\ pc = "insert_date"
    /\ Goto("insert_updated")
    /\ frontmatter_value' =
          IF date # None
          THEN insert(frontmatter_value, "date", String(utc_iso_date(Head(date))))
          ELSE frontmatter_value
    /\ UNCHANGED <<env, unexpected_key, warned, date, updated, yaml_frontmatter,
                   markdown, frontmatter_date, title, slug, year,
                   month, day, toml_frontmatter, output_path, created_dirs, output>>

\* main: `updated` is set from the last git date, if there is one
InsertUpdated ==
    /\ pc = "insert_updated"
    /\ Goto("insert_path")
    /\ frontmatter_value' =
          IF updated # None
          THEN insert(frontmatter_value, "updated", String(utc_iso_date(Head(updated))))
          ELSE frontmatter_value
    /\ UNCHANGED <<env, unexpected_key, warned, date, updated, yaml_frontmatter,
                   markdown, frontmatter_date, title, slug, year,
                   month, day, toml_frontmatter, output_path, created_dirs, output>>

\* format!("/blog/{year}/{month}/{day}/{slug}")
BlogPath(y, m, d, s) ==
    Concat(<<<<"/","b","l","o","g","/">>, y, <<"/">>, m, <<"/">>, d, <<"/">>, s>>)

\* main: `path` is set
InsertPath ==
    /\ pc = "insert_path"
    /\ Goto("convert_author")
    /\ frontmatter_value' =
          insert(frontmatter_value, "path", String(BlogPath(year, month, day, slug)))
    /\ UNCHANGED <<env, unexpected_key, warned, date, updated, yaml_frontmatter,
                   markdown, frontmatter_date, title, slug, year,
                   month, day, toml_frontmatter, output_path, created_dirs, output>>

\* mutant of convert_taxonomy: a string is stored as it is, not as an array
convert_taxonomy_NoCoercion(m, old_key, new_key) ==
    IF ~contains_key(m, old_key) THEN [map |-> m, result |-> "ok"]
    ELSE LET value == get(m, old_key)
             entered == entry_or_insert(remove(m, old_key), "taxonomies", Table(<<>>))
             table == get(entered, "taxonomies")
         IN  IF table.t # "Table" THEN [map |-> entered, result |-> "unwrap"]
             ELSE IF value.t \notin {"String", "Array"}
             THEN [map |-> entered, result |-> "taxonomy_type"]
             ELSE [map |-> insert(entered, "taxonomies",
                                  Table(table_insert(table.tab, new_key, value))),
                   result |-> "ok"]

\* convert_taxonomy: the map it leaves behind and how it returns ("ok", the
\* bail!, or the panic of unwrap on a `taxonomies` that is no table)
convert_taxonomy(m, old_key, new_key) ==
    IF ~contains_key(m, old_key) THEN [map |-> m, result |-> "ok"]
    ELSE LET value == get(m, old_key)
             removed == remove(m, old_key)
             entered == entry_or_insert(removed, "taxonomies", Table(<<>>))
             table == get(entered, "taxonomies")
             array == IF value.t = "String" THEN Array(<<String(value.s)>>) ELSE value
         IN  IF table.t # "Table" THEN [map |-> entered, result |-> "unwrap"]
             ELSE IF value.t \notin {"String", "Array"}
             THEN [map |-> entered, result |-> "taxonomy_type"]
             ELSE [map |-> insert(entered, "taxonomies",
                                  Table(table_insert(table.tab, new_key, array))),
                   result |-> "ok"]

\* main: convert_taxonomy(&mut frontmatter_value, "author", "author")?
ConvertAuthor ==
    /\ pc = "convert_author"
    /\ LET r == convert_taxonomy(frontmatter_value, "author", "author")
       IN  /\ frontmatter_value' = r.map
           /\ IF r.result = "ok" THEN Goto("convert_categories") ELSE Fail(r.result)
    /\ UNCHANGED <<env, unexpected_key, warned, date, updated, yaml_frontmatter,
                   markdown, frontmatter_date, title, slug, year,
                   month, day, toml_frontmatter, output_path, created_dirs, output>>

\* mutant of ConvertCategories: the `?` is missing, the error is dropped
ConvertCategories_ErrorDropped ==
    /\ pc = "convert_categories"
    /\ frontmatter_value' = convert_taxonomy(frontmatter_value, "categories", "category").map
    /\ Goto("to_string")
    /\ UNCHANGED <<env, unexpected_key, warned, date, updated, yaml_frontmatter,
                   markdown, frontmatter_date, title, slug, year,
                   month, day, toml_frontmatter, output_path, created_dirs, output>>

\* main: convert_taxonomy(&mut frontmatter_value, "categories", "category")?
ConvertCategories ==
    /\ pc = "convert_categories"
    /\ LET r == convert_taxonomy(frontmatter_value, "categories", "category")
       IN  /\ frontmatter_value' = r.map
           /\ IF r.result = "ok" THEN Goto("to_string") ELSE Fail(r.result)
    /\ UNCHANGED <<env, unexpected_key, warned, date, updated, yaml_frontmatter,
                   markdown, frontmatter_date, title, slug, year,
                   month, day, toml_frontmatter, output_path, created_dirs, output>>

\* one line `key = value` of the TOML text, inside table `section` ("" at the
\* top level), and the line `[section]` that opens a table
TomlLine(section, key, value) == [kind |-> "toml", text |-> section, k |-> key, v |-> value]
TomlHeader(section) == [kind |-> "toml_table", text |-> section, k |-> "", v |-> Integer]

RECURSIVE TomlEntries(_, _)
\* the lines of the entries of one table
TomlEntries(section, entries) ==
    IF entries = <<>> THEN <<>>
    ELSE <<TomlLine(section, Head(entries).k, Head(entries).v), Newline>>
            \o TomlEntries(section, Tail(entries))

RECURSIVE TomlTables(_)
\* the sections of the entries that are tables
TomlTables(entries) ==
    IF entries = <<>> THEN <<>>
    ELSE <<TomlHeader(Head(entries).k), Newline>>
            \o TomlEntries(Head(entries).k, Head(entries).v.tab)
            \o TomlTables(Tail(entries))

\* toml::to_string: a TOML document holds its plain values first, in the
\* map's order, and then one section for each table
to_string(m) ==
    TomlEntries("", SelectSeq(m, LAMBDA e : e.v.t # "Table"))
        \o TomlTables(SelectSeq(m, LAMBDA e : e.v.t = "Table"))

\* format!("{year}/{month}/{year}-{month}-{day}-{slug}.md")
OutputPath(y, m, d, s) ==
    Concat(<<y, <<"/">>, m, <<"/">>, y, <<"-">>, m, <<"-">>, d, <<"-">>, s,
             <<".","m","d">>>>)

\* main: the header is serialized and the output path computed
Serialize ==
    /\ pc = "to_string"
    /\ Goto("create_dir_all")
    /\ toml_frontmatter' = to_string(frontmatter_value)
    /\ output_path' = OutputPath(year, month, day, slug)
    /\ UNCHANGED <<env, unexpected_key, warned, date, updated, yaml_frontmatter,
                   markdown, frontmatter_value, frontmatter_date, title, slug, year,
                   month, day, created_dirs, output>>

\* main: fs::create_dir_all(output_path.parent()): {year} and {year}/{month}
\* exist afterwards, unless the file system refuses
CreateDirAll ==
    /\ pc = "create_dir_all"
    /\ \/ /\ Goto("create")
          /\ created_dirs' = {year, Concat(<<year, <<"/">>, month>>)}
       \/ /\ Fail("io")
          /\ UNCHANGED created_dirs
    /\ UNCHANGED <<env, unexpected_key, warned, date, updated, yaml_frontmatter,
                   markdown, frontmatter_value, frontmatter_date, title, slug, year,
                   month, day, toml_frontmatter, output_path, output>>

\* main: File::create(output_path): the file exists and is empty afterwards,
\* unless the file system refuses
CreateFile ==
    /\ pc = "create"
    /\ \/ /\ Goto("writeln")
          /\ output' = <<<<>>>>
       \/ /\ Fail("io")
          /\ UNCHANGED output
    /\ UNCHANGED <<env, unexpected_key, warned, date, updated, yaml_frontmatter,
                   markdown, frontmatter_value, frontmatter_date, title, slug, year,
                   month, day, toml_frontmatter, output_path, created_dirs>>

\* writeln!(writer, "+++\n{toml_frontmatter}+++\n{markdown}")
Document(toml, body) ==
    <<TextLine("+++"), Newline>> \o toml \o <<TextLine("+++"), Newline>> \o body
        \o <<Newline>>

\* main: the document is written, unless the file system refuses
WriteOutput ==
    /\ pc = "writeln"
    /\ \/ /\ Goto("done")
          /\ output' = <<Document(toml_frontmatter, markdown)>>
       \/ /\ Fail("io")
          /\ UNCHANGED output
    /\ UNCHANGED <<env, unexpected_key, warned, date, updated, yaml_frontmatter,
                   markdown, frontmatter_value, frontmatter_date, title, slug, year,
                   month, day, toml_frontmatter, output_path, created_dirs>>

Next ==
    \/ CheckArgs
    \/ git_timestamps
    \/ read_file_contents
    \/ from_str
    \/ TakeDate
    \/ CheckMismatch
    \/ TakeTitle
    \/ TakeSlug
    \/ CheckFields
    \/ CutDate
    \/ InsertDate
    \/ InsertUpdated
    \/ InsertPath
    \/ ConvertAuthor
    \/ ConvertCategories
    \/ Serialize
    \/ CreateDirAll
    \/ CreateFile
    \/ WriteOutput

Spec == Init /\ [][Next]_vars

(***************************************************************************)
(* Vocabulary of the properties.                                           *)
(***************************************************************************)
Steps ==
    <<"start", "git_timestamps", "read_file_contents", "from_str", "date",
      "mismatch", "title", "slug", "fields", "date_shape", "insert_date",
      "insert_updated", "insert_path", "convert_author", "convert_categories",
      "to_string", "create_dir_all", "create", "writeln", "done">>

StepIndex(step) == CHOOSE i \in DOMAIN Steps : Steps[i] = step

\* the earliest step at which a run can fail with `kind`
FailStep(kind) ==
    CASE kind \in {"usage", "assert_mdx"} -> "start"
      [] kind = "git_no_history" -> "git_timestamps"
      [] kind \in {"input_empty", "no_frontmatter", "unterminated"} -> "read_file_contents"
      [] kind = "yaml" -> "from_str"
      [] kind \in {"no_date", "date_not_string"} -> "date"
      [] kind \in {"no_title", "title_not_string"} -> "title"
      [] kind = "slug_not_string" -> "slug"
      [] kind = "unexpected_field" -> "fields"
      [] kind = "date_shape" -> "date_shape"
      [] kind \in {"taxonomy_type", "unwrap"} -> "convert_author"
      [] kind = "io" -> "create_dir_all"

\* the run has got to `step`: every step before it has succeeded
Reached(step) ==
    StepIndex(IF pc = "failed" THEN FailStep(failure) ELSE pc) >= StepIndex(step)

\* the error classes of the specification
UsageError == {"usage"}
MalformedInputError == {"input_empty", "no_frontmatter", "unterminated"}
ParseError == {"yaml"}
UnexpectedFieldError == {"unexpected_field"}
ValidationError ==
    {"date_not_string", "title_not_string", "slug_not_string", "date_shape",
     "taxonomy_type"}
Panics == {"assert_mdx", "git_no_history", "no_date", "no_title", "unwrap"}

\* the header as decoded, before the transformer touches it
Header == CollectEntries(SelectSeq(yaml_frontmatter, LAMBDA l : l.kind # "newline"), <<>>)
HeaderKeys == { Header[i].k : i \in DOMAIN Header }
Has(key) == key \in HeaderKeys
IsString(key) == Has(key) /\ get(Header, key).t = "String"

\* 4 decimal digits, '-', 2 decimal digits, '-', 2 decimal digits
WellFormedDate(d) ==
    /\ Len(d) = 10
    /\ \A i \in {1, 2, 3, 4, 6, 7, 9, 10} : d[i] \in Range(Digits)
    /\ d[5] = "-"
    /\ d[8] = "-"

DeclaredDate == get(Header, "date").s
DateIsWellFormed == IsString("date") /\ WellFormedDate(DeclaredDate)

\* a taxonomy value of a type the conversion takes
TaxonomyTyped(key) == Has(key) => get(Header, key).t \in {"String", "Array"}

\* the keys of the map now
MapKeys == { frontmatter_value[i].k : i \in DOMAIN frontmatter_value }

\* the written document: its top-level field names, and the value of a field
OutputLines == Head(output)
OutputFields ==
    { OutputLines[i].k : i \in { j \in DOMAIN OutputLines :
          OutputLines[j].kind = "toml" /\ OutputLines[j].text = "" } }
    \cup { OutputLines[i].text : i \in { j \in DOMAIN OutputLines :
          OutputLines[j].kind = "toml_table" } }
OutputHas(section, key, value) ==
    \E i \in DOMAIN OutputLines : OutputLines[i] = TomlLine(section, key, value)

(***************************************************************************)
(* C1.  As stated: every run whose header decodes to a mapping with a key  *)
(* outside {date, title, author, categories, slug} ends with the           *)
(* unexpected-field error naming such a key, whatever the other fields     *)
(* are.                                                                    *)
(***************************************************************************)
UnrecognizedKeys == HeaderKeys \ RecognizedInput

C1_AsStated ==
    (Reached("date") /\ UnrecognizedKeys # {} /\ pc \in {"failed", "done"})
        => (failure \in UnexpectedFieldError /\ unexpected_key \in UnrecognizedKeys)

(***************************************************************************)
(* C1, amended.  When the header decodes to a mapping with a key outside   *)
(* {date, title, author, categories, slug}, and `date` is present and a    *)
(* string, `title` is present and a string and `slug` is absent or a       *)
(* string, the run never gets past the check of the fields, and it fails   *)
(* with the unexpected-field error, naming the first such key of the       *)
(* header, and with no other failure.                                      *)
(***************************************************************************)
C1_UnexpectedField ==
    (/\ Reached("date")
     /\ UnrecognizedKeys # {}
     /\ IsString("date")
     /\ IsString("title")
     /\ (Has("slug") => IsString("slug")))
        => /\ ~Reached("date_shape")
           /\ pc = "failed" =>
                /\ failure \in UnexpectedFieldError
                /\ unexpected_key =
                      Head(SelectSeq(keys(Header), LAMBDA k : k \notin RecognizedInput))

\* a run that failed naming the output-only key `taxonomies`, which comes
\* before another unrecognized key of the header
C1_Witness ==
    /\ pc = "failed"
    /\ failure = "unexpected_field"
    /\ unexpected_key = "taxonomies"
    /\ Has("image")
    /\ warned

(***************************************************************************)
(* C2.  The output file and its directories exist only after the git       *)
(* timestamps were read, the header was split off and decoded, date, title *)
(* and slug were validated, no unexpected field was found, the date passed *)
(* the pattern check, both taxonomies were converted and the header was    *)
(* serialized; a run that ends in a usage, malformed-input, parse,         *)
(* unexpected-field or validation error, or in a panic, has created        *)
(* nothing.                                                                *)
(***************************************************************************)
C2_OutputOnlyAfterSuccess ==
    /\ (output # <<>> \/ created_dirs # {}) =>
          /\ Reached("create_dir_all")
          /\ Len(args) = 1
          /\ history # <<>>
          /\ lines # <<>> /\ Head(lines) = Delimiter
          /\ \A i \in DOMAIN Header : Header[i].k # ""
          /\ IsString("date") /\ IsString("title")
          /\ (Has("slug") => IsString("slug"))
          /\ HeaderKeys \subseteq RecognizedInput
          /\ DateAssertions(DeclaredDate)
          /\ TaxonomyTyped("author") /\ TaxonomyTyped("categories")
          /\ MapKeys \cap {"author", "categories", "slug"} = {}
          /\ toml_frontmatter = to_string(frontmatter_value)
    /\ (pc = "failed" /\ failure \in UsageError \cup MalformedInputError \cup ParseError
                                      \cup UnexpectedFieldError \cup ValidationError
                                      \cup Panics) =>
          /\ output = <<>>
          /\ created_dirs = {}

\* a run that failed in the last validation before the output, with no output
C2_Witness ==
    /\ pc = "failed"
    /\ failure = "taxonomy_type"
    /\ "taxonomies" \in MapKeys
    /\ "path" \in MapKeys
    /\ output = <<>>
    /\ created_dirs = {}

(***************************************************************************)
(* C3.  When the declared date is a well-formed YYYY-MM-DD string that the *)
(* created git timestamp does not start with, the run warns and goes on:   *)
(* it fails at no step if the other fields are valid (only the file system *)
(* can still refuse), neither `date` nor `updated` is set in the map or    *)
(* written, and `path` and the output file's location carry the year,      *)
(* month and day of the declared date.                                     *)
(***************************************************************************)
DeclaredMismatch ==
    /\ Reached("date")
    /\ DateIsWellFormed
    /\ ~StartsWith(Head(history), DeclaredDate)

OtherFieldsValid ==
    /\ IsString("title")
    /\ Has("slug") => IsString("slug")
    /\ HeaderKeys \subseteq RecognizedInput
    /\ TaxonomyTyped("author")
    /\ TaxonomyTyped("categories")

UtcForm(line) == DateCommand(line, 0)

C4_AsStated ==
    (Reached("insert_path") /\ IsString("date") /\ StartsWith(Head(history), DeclaredDate))
        => /\ "date" \in MapKeys
           /\ get(frontmatter_value, "date") = String(UtcForm(Head(history)))
           /\ "updated" \in MapKeys
                 <=> (Len(history) > 1 /\ history[Len(history)] # Head(history))
           /\ "updated" \in MapKeys =>
                 get(frontmatter_value, "updated") = String(UtcForm(history[Len(history)]))

(***************************************************************************)
(* C5.  As stated: a run whose declared date is absent, not a string, or   *)
(* not of the shape 4 digits, '-', 2 digits, '-', 2 digits never gets to   *)
(* the derivation of the path, sets no `path` and writes no output.        *)
(***************************************************************************)
C5_AsStated ==
    (Reached("date") /\ ~DateIsWellFormed)
        => /\ ~Reached("insert_date")
           /\ ~Has("path") => "path" \notin MapKeys
           /\ output = <<>>
           /\ created_dirs = {}

(***************************************************************************)
(* C6.  A source field (author, categories) that is present is gone from   *)
(* the top level after its conversion, and taxonomies[author] or           *)
(* taxonomies[category] is [s] for a string s and the array itself for an  *)
(* array; a value of another type ends the run with a validation error;    *)
(* with both fields present the one `taxonomies` table holds both targets, *)
(* with neither there is no `taxonomies` field, in the map and in the      *)
(* written document.                                                       *)
(***************************************************************************)
Coerced(value) == IF value.t = "String" THEN Array(<<String(value.s)>>) ELSE value

\* after the conversion of `source`, the map holds it under taxonomies[target]
Converted(source, target) ==
    /\ source \notin MapKeys
    /\ Has(source) =>
          /\ "taxonomies" \in MapKeys
          /\ get(frontmatter_value, "taxonomies").t = "Table"
          /\ \E i \in DOMAIN get(frontmatter_value, "taxonomies").tab :
                get(frontmatter_value, "taxonomies").tab[i]
                    = [k |-> target, v |-> Coerced(get(Header, source))]
    /\ (~Has(source) /\ "taxonomies" \in MapKeys) =>
          \A i \in DOMAIN get(frontmatter_value, "taxonomies").tab :
                get(frontmatter_value, "taxonomies").tab[i].k # target

C6_Taxonomies ==
    /\ Reached("convert_categories") => Converted("author", "author")
    /\ Reached("to_string") =>
          /\ Converted("author", "author")
          /\ Converted("categories", "category")
          /\ Cardinality({ i \in DOMAIN frontmatter_value :
                             frontmatter_value[i].k = "taxonomies" }) <= 1
          /\ (Has("author") /\ Has("categories")) =>
                Len(get(frontmatter_value, "taxonomies").tab) = 2
          /\ (~Has("author") /\ ~Has("categories")) => "taxonomies" \notin MapKeys
    /\ (Reached("convert_author") /\ ~(TaxonomyTyped("author") /\ TaxonomyTyped("categories")))
          => /\ ~Reached("to_string")
             /\ pc = "failed" => failure \in ValidationError
    /\ pc = "done" =>
          /\ Has("author") => OutputHas("taxonomies", "author", Coerced(get(Header, "author")))
          /\ Has("categories") =>
                OutputHas("taxonomies", "category", Coerced(get(Header, "categories")))
          /\ (~Has("author") /\ ~Has("categories")) => "taxonomies" \notin OutputFields
          /\ OutputFields \cap {"author", "categories"} = {}

\* a finished run that turned a string author and an array of categories
\* into the two entries of one table
C6_Witness ==
    /\ pc = "done"
    /\ Has("author") /\ get(Header, "author") = String(Foo)
    /\ Has("categories") /\ get(Header, "categories") = Array(<<String(Foo), String(Bar)>>)
    /\ get(frontmatter_value, "taxonomies").tab =
          <<[k |-> "author", v |-> Array(<<String(Foo)>>)],
            [k |-> "category", v |-> Array(<<String(Foo), String(Bar)>>)]>>
    /\ OutputHas("taxonomies", "author", Array(<<String(Foo)>>))

(***************************************************************************)
(* C7.  As stated: a header whose keys are among {date, title, author,     *)
(* categories, slug}, with a well-formed date and every present field of   *)
(* the right type, is transformed without failure, whichever optional      *)
(* fields it has (also without `title`), into a document with no top-level *)
(* field outside {title, date, updated, path, taxonomies}.                 *)
(***************************************************************************)
OutputFieldNames == {"title", "date", "updated", "path", "taxonomies"}

ArrayOfStrings(value) == \A i \in DOMAIN value.a : value.a[i].t = "String"

WellTyped ==
    /\ HeaderKeys \subseteq RecognizedInput
    /\ DateIsWellFormed
    /\ Has("title") => IsString("title")
    /\ Has("slug") => IsString("slug")
    /\ \A key \in {"author", "categories"} :
          Has(key) => /\ get(Header, key).t \in {"String", "Array"}
                      /\ ArrayOfStrings(get(Header, key))

Transformed ==
    /\ pc = "failed" => failure = "io"
    /\ Reached("to_string") => MapKeys \subseteq OutputFieldNames
    /\ pc = "done" => OutputFields \subseteq OutputFieldNames

HelloWorld == <<"h","e","l","l","o","-","w","o","r","l","d">>
HelloWorldPath ==
    <<"/","b","l","o","g","/","2","0","2","4","/","0","3","/","0","7","/">> \o HelloWorld
HelloWorldFile ==
    <<"2","0","2","4","/","0","3","/","2","0","2","4","-","0","3","-","0","7","-">>
        \o HelloWorld \o <<".","m","d">>

DeclaredYear == SubSeq(DeclaredDate, 1, 4)
DeclaredMonth == SubSeq(DeclaredDate, 6, 7)
DeclaredDay == SubSeq(DeclaredDate, 9, 10)

C8_SlugAndPath ==
    /\ Reached("fields") =>
          /\ Has("slug") => (IsString("slug") /\ slug = get(Header, "slug").s)
          /\ ~Has("slug") => slug = ToKebabCase(get(Header, "title").s)
          /\ (~Has("slug") /\ get(Header, "title").s = Hello) => slug = HelloWorld
          /\ "slug" \notin MapKeys
    /\ (Reached("slug") /\ Has("slug") /\ ~IsString("slug")) =>
          /\ ~Reached("fields")
          /\ pc = "failed" => (failure = "slug_not_string" /\ failure \in ValidationError)
    /\ pc = "done" =>
          /\ OutputHas("", "path",
                 String(BlogPath(DeclaredYear, DeclaredMonth, DeclaredDay, slug)))
          /\ output_path = OutputPath(DeclaredYear, DeclaredMonth, DeclaredDay, slug)
          /\ "slug" \notin OutputFields
          /\ (~Has("slug") /\ get(Header, "title").s = Hello /\ DeclaredDate = March7) =>
                /\ OutputHas("", "path", String(HelloWorldPath))
                /\ output_path = HelloWorldFile
          /\ (Has("slug") /\ DeclaredDate = March7) =>
                output_path = <<"2","0","2","4","/","0","3","/","2","0","2","4","-","0","3",
                                "-","0","7","-">> \o get(Header, "slug").s \o <<".","m","d">>

\* a finished run that derived hello-world from the title
C8_Witness ==
    /\ pc = "done"
    /\ ~Has("slug")
    /\ OutputHas("", "path", String(HelloWorldPath))
    /\ output_path = HelloWorldFile

(***************************************************************************)
(* C9.  The split of a file, whatever its lines: an empty file and a file  *)
(* whose first line is not exactly "---" fail; a file with no later line   *)
(* that is exactly "---" fails as unterminated; otherwise the header is    *)
(* the lines strictly between the first line and the first later "---",    *)
(* each followed by a newline, and the body is all the lines after that    *)
(* "---" with single newlines between them.                                *)
(***************************************************************************)
HasClose == \E j \in 2..Len(lines) : lines[j] = Delimiter
FirstClose ==
    CHOOSE j \in 2..Len(lines) :
        lines[j] = Delimiter /\ \A i \in 2..(j - 1) : lines[i] # Delimiter
Opens == lines # <<>> /\ lines[1] = Delimiter

C9_Split ==
    /\ (pc = "failed" /\ Reached("read_file_contents")) =>
          /\ ~Opens <=> failure \in {"input_empty", "no_frontmatter"}
          /\ (Opens /\ ~HasClose) <=> failure = "unterminated"
          /\ failure \in {"input_empty", "no_frontmatter", "unterminated"}
                => failure \in MalformedInputError
    /\ Reached("from_str") =>
          /\ Opens
          /\ HasClose
          /\ Len(yaml_frontmatter) = 2 * (FirstClose - 2)
          /\ \A i \in 1..(FirstClose - 2) :
                /\ yaml_frontmatter[2 * i - 1] = lines[i + 1]
                /\ yaml_frontmatter[2 * i] = Newline
          /\ IF FirstClose = Len(lines) THEN markdown = <<>>
             ELSE /\ Len(markdown) = 2 * (Len(lines) - FirstClose) - 1
                  /\ \A i \in 1..(Len(lines) - FirstClose) :
                        markdown[2 * i - 1] = lines[FirstClose + i]
                  /\ \A i \in 1..(Len(lines) - FirstClose - 1) :
                        markdown[2 * i] = Newline

\* a split whose header holds a padded " ---" and whose body is a "---"
C9_Witness ==
    /\ pc = "from_str"
    /\ lines = <<Delimiter, TextLine(" ---"), Delimiter, Delimiter>>
    /\ yaml_frontmatter = <<TextLine(" ---"), Newline>>
    /\ markdown = <<Delimiter>>

(***************************************************************************)
(* C10.  As stated: at every point of the transformation the map holds the *)
(* surviving fields of the header in their order in the header, followed   *)
(* by the fields the transformer has set, in the order date, updated,      *)
(* path, taxonomies.                                                       *)
(***************************************************************************)
C10_AsStated ==
    (Reached("mismatch") /\ pc # "failed" /\ HeaderKeys \cap OutputOnly = {}) =>
        keys(frontmatter_value) =
            SelectSeq(keys(Header), LAMBDA k : k \in MapKeys /\ k \notin OutputFieldNames \ {"title"})
                \o SelectSeq(<<"date", "updated", "path", "taxonomies">>,
                             LAMBDA k : k \in MapKeys)

=============================================================================
